---- MODULE Spec2Model ----
(***************************************************************************)
(* The bitcoind supervisor of manager/src/main.rs as a state machine:      *)
(* the main thread (main, inner_main), the ctrlc handler thread, the       *)
(* sidecar thread, the optional proxy thread, the daemon child process     *)
(* and the files they share.  A supervisor process that has ended can be   *)
(* started again by the service manager; the files survive the restart.    *)
(***************************************************************************)
EXTENDS Integers, Sequences, FiniteSets, TLC

\* ------------------------------------------------------------------ bounds

\* Termination signals delivered to one supervisor process.
MaxSignals == 2
\* Supervisor processes started one after the other (restarts).
MaxRuns == 2

\* ------------------------------------------------------------- option type

None == [some |-> FALSE]
Some(v) == [some |-> TRUE, val |-> v]

\* ------------------------------------------------- environment and settings

\* EMBASSY_IP is later parsed as "<ip>:9050" into a socket address
\* (main.rs:495): only an IP literal parses.
IpLiterals == {"172.18.0.1"}

EnvIps == {None, Some("172.18.0.1"), Some("embassy")}
EnvPeerAddrs == {None, Some("peerxyz.onion")}
EnvRpcAddrs == {None, Some("rpcxyz.onion"), Some("rpcxyz.local")}

\* The Settings Document as far as the program reads it: rpc.username,
\* rpc.password, advanced (present or not), advanced.peers.onlyonion
\* ("absent", or the bool as "true"/"false") and advanced.pruning.mode.
\* valid = FALSE is a file that does not parse as a YAML mapping.
MalformedSettings ==
    [valid |-> FALSE, username |-> None, password |-> None,
     advanced |-> FALSE, onlyonion |-> "absent", mode |-> "absent"]
WithCreds(s) ==
    [s EXCEPT !.username = Some("bitcoin"), !.password = Some("hunter2")]
NoAdvanced ==
    [valid |-> TRUE, username |-> None, password |-> None,
     advanced |-> FALSE, onlyonion |-> "absent", mode |-> "absent"]
AdvancedSettings ==
    { [valid |-> TRUE, username |-> None, password |-> None,
       advanced |-> TRUE, onlyonion |-> o, mode |-> m] :
        o \in {"absent", "true", "false"}, m \in {"automatic", "disabled"} }
BaseSettings ==
    [valid |-> TRUE, username |-> None, password |-> None,
     advanced |-> TRUE, onlyonion |-> "false", mode |-> "disabled"]
SettingsDocs ==
    {MalformedSettings, NoAdvanced, WithCreds(BaseSettings)} \cup AdvancedSettings

MarkerReindex == "requires.reindex"
MarkerChainstate == "requires.reindex_chainstate"
Markers == {MarkerReindex, MarkerChainstate}

\* --------------------------------------------------- strings and formatting

EndsWith(s, suffix) ==
    /\ Len(s) >= Len(suffix)
    /\ SubSeq(s, Len(s) - Len(suffix) + 1, Len(s)) = suffix

\* str::strip_suffix
StripSuffix(s, suffix) ==
    IF EndsWith(s, suffix) THEN Some(SubSeq(s, 1, Len(s) - Len(suffix))) ELSE None

LowerCase == "abcdefghijklmnopqrstuvwxyz"
UpperCase == "ABCDEFGHIJKLMNOPQRSTUVWXYZ"
Digits == "0123456789"
IsLower(c) == \E i \in 1..Len(LowerCase) : SubSeq(LowerCase, i, i) = c
IsUpper(c) == \E i \in 1..Len(UpperCase) : SubSeq(UpperCase, i, i) = c
IsDigit(c) == \E i \in 1..Len(Digits) : SubSeq(Digits, i, i) = c
IsLetter(c) == IsLower(c) \/ IsUpper(c)
IsAlnum(c) == IsLetter(c) \/ IsDigit(c)
ToUpper(c) ==
    IF IsLower(c)
    THEN LET i == CHOOSE j \in 1..Len(LowerCase) : SubSeq(LowerCase, j, j) = c
         IN SubSeq(UpperCase, i, i)
    ELSE c
ToLower(c) ==
    IF IsUpper(c)
    THEN LET i == CHOOSE j \in 1..Len(UpperCase) : SubSeq(UpperCase, j, j) = c
         IN SubSeq(LowerCase, i, i)
    ELSE c
RECURSIVE Lowercase(_)
Lowercase(s) ==
    IF s = "" THEN ""
    ELSE ToLower(SubSeq(s, 1, 1)) \o Lowercase(SubSeq(s, 2, Len(s)))

\* heck 0.3 (the release that has the TitleCase trait) on ASCII text.  The
\* input is first cut into words as str::unicode_words cuts it: a word is
\* a run of letters, digits and underscores with a letter or a digit in
\* it; a full stop, colon or apostrophe between two letters, and a full
\* stop, comma, semicolon or apostrophe between two digits, does not end
\* the word.
CharAt(s, i) == IF i >= 1 /\ i <= Len(s) THEN SubSeq(s, i, i) ELSE ""
InWord(s, i) ==
    LET c == CharAt(s, i)
        p == CharAt(s, i - 1)
        n == CharAt(s, i + 1)
    IN \/ IsAlnum(c)
       \/ c = "_"
       \/ c \in {".", ":", "'"} /\ IsLetter(p) /\ IsLetter(n)
       \/ c \in {".", ",", ";", "'"} /\ IsDigit(p) /\ IsDigit(n)
HasAlnum(w) == \E i \in 1..Len(w) : IsAlnum(SubSeq(w, i, i))
RECURSIVE UnicodeWords(_, _, _, _)
UnicodeWords(s, i, cur, acc) ==
    LET flushed == IF HasAlnum(cur) THEN Append(acc, cur) ELSE acc IN
    IF i > Len(s) THEN flushed
    ELSE IF InWord(s, i)
         THEN UnicodeWords(s, i + 1, cur \o SubSeq(s, i, i), acc)
         ELSE UnicodeWords(s, i + 1, "", flushed)

\* heck's transform on one word: the pieces it hands to with_word.  init
\* is where the current piece starts; mode is the case of the last cased
\* character of the piece ("boundary" when there is none yet).  A piece
\* ends after a character that an underscore follows, after a lower-case
\* run that an upper-case letter follows, and before the last letter of an
\* upper-case run that a lower-case letter follows.
RECURSIVE Pieces(_, _, _, _, _)
Pieces(word, i, init, mode, acc) ==
    IF i > Len(word) THEN acc
    ELSE LET c == SubSeq(word, i, i) IN
         IF c = "_"
         THEN Pieces(word, i + 1, IF init = i THEN init + 1 ELSE init, mode, acc)
         ELSE IF i = Len(word)
         THEN Append(acc, SubSeq(word, init, Len(word)))
         ELSE LET next == SubSeq(word, i + 1, i + 1)
                  next_mode == IF IsLower(c) THEN "lowercase"
                               ELSE IF IsUpper(c) THEN "uppercase"
                               ELSE mode
              IN IF next = "_" \/ (next_mode = "lowercase" /\ IsUpper(next))
                 THEN Pieces(word, i + 1, i + 1, "boundary",
                             Append(acc, SubSeq(word, init, i)))
                 ELSE IF mode = "uppercase" /\ IsUpper(c) /\ IsLower(next)
                 THEN Pieces(word, i + 1, i, "boundary",
                             Append(acc, SubSeq(word, init, i - 1)))
                 ELSE Pieces(word, i + 1, init, next_mode, acc)

\* heck's capitalize: the first character in upper case, the rest in lower.
Capitalize(w) ==
    IF w = "" THEN ""
    ELSE ToUpper(SubSeq(w, 1, 1)) \o Lowercase(SubSeq(w, 2, Len(w)))

\* The pieces of all the words, in order.
RECURSIVE TitleFrom(_, _)
TitleFrom(words, acc) ==
    IF words = <<>> THEN acc
    ELSE TitleFrom(Tail(words),
                   acc \o Pieces(Head(words), 1, 1, "boundary", <<>>))

\* Every piece capitalised, a single space between two pieces.
RECURSIVE JoinTitle(_)
JoinTitle(ps) ==
    IF ps = <<>> THEN ""
    ELSE IF Len(ps) = 1 THEN Capitalize(ps[1])
    ELSE Capitalize(ps[1]) \o " " \o JoinTitle(Tail(ps))
to_title_case(s) == JoinTitle(TitleFrom(UnicodeWords(s, 1, "", <<>>), <<>>))

Pad2(n) == IF n < 10 THEN "0" \o ToString(n) ELSE ToString(n)

\* chrono's %Y: four digits, zero padded; a year past 9999 is written
\* with its sign.
Pad4(n) ==
    IF n < 10 THEN "000" \o ToString(n)
    ELSE IF n < 100 THEN "00" \o ToString(n)
    ELSE IF n < 1000 THEN "0" \o ToString(n)
    ELSE IF n < 10000 THEN ToString(n)
    ELSE "+" \o ToString(n)

\* A u64 number of seconds is wider than one integer here: it is kept as
\* its three digits in base 10^9, <<a, b, c>> for a * 10^18 + b * 10^9 + c.
Giga == 1000000000
U64(a, b, c) == <<a, b, c>>
U64OfNat(n) == U64(0, n \div Giga, n % Giga)
\* i64::MAX, which the daemon reports as the timeout of a deployment
\* that never times out, and u64::MAX.
I64Max == U64(9, 223372036, 854775807)
U64Max == U64(18, 446744073, 709551615)

\* The conversion panics on an instant chrono cannot hold ("No such local
\* time"): its calendar ends with 262142-12-31, whose last second is
\* 8210266876799.  (Releases of chrono before the calendar was shortened
\* by a year also held the year 262143; no release is pinned in src/, and
\* a build resolves to the shorter calendar.  Past i64::MAX the addition
\* to UNIX_EPOCH already panics.)
TimestampPanics(unix_time) ==
    \/ unix_time[1] > 0
    \/ unix_time[2] > 8210
    \/ unix_time[2] = 8210 /\ unix_time[3] > 266876799

\* chrono's "%m/%d/%Y @ %H:%M:%S" of a Unix time, in UTC (the civil date
\* of a day number, proleptic Gregorian calendar), for an instant that
\* does not panic.  10^9 seconds are 11574 days and 6400 seconds.
human_readable_timestamp(unix_time) ==
    LET low  == unix_time[2] * 6400 + unix_time[3]
        days == unix_time[2] * 11574 + low \div 86400
        secs == low % 86400
        z    == days + 719468
        era  == z \div 146097
        doe  == z - era * 146097
        yoe  == (doe - doe \div 1460 + doe \div 36524 - doe \div 146096) \div 365
        doy  == doe - (365 * yoe + yoe \div 4 - yoe \div 100)
        mp   == (5 * doy + 2) \div 153
        d    == doy - (153 * mp + 2) \div 5 + 1
        m    == IF mp < 10 THEN mp + 3 ELSE mp - 9
        y    == yoe + era * 400 + (IF m <= 2 THEN 1 ELSE 0)
    IN Pad2(m) \o "/" \o Pad2(d) \o "/" \o Pad4(y) \o " @ "
       \o Pad2(secs \div 3600) \o ":" \o Pad2((secs % 3600) \div 60)
       \o ":" \o Pad2(secs % 60)

\* format!("{:.2}", n as f64 / d as f64) for naturals n and d > 0 (n up to
\* 10^7, d below 2^30).  The formatter rounds the double it is given to
\* the nearest hundredth, an exact half to the even one.  The double is
\* the quotient rounded to 53 bits, so it is an exact half only when the
\* quotient is one a double can hold; any other quotient that lies half
\* way is printed as the double next to it, above or below.
RECURSIVE OddPart(_)
OddPart(d) == IF d % 2 = 0 THEN OddPart(d \div 2) ELSE d
\* n / d is a binary fraction (a double holds it exactly).
IsDyadic(n, d) == n % OddPart(d) = 0
\* floor(log2(q)) for q >= 1.
RECURSIVE Log2(_)
Log2(q) == IF q < 2 THEN 0 ELSE 1 + Log2(q \div 2)
\* The least j with a * 2^j >= b.
RECURSIVE ShiftsTo(_, _)
ShiftsTo(a, b) == IF a >= b THEN 0 ELSE 1 + ShiftsTo(2 * a, b)
\* (r * 2^k) mod b
RECURSIVE DoubleMod(_, _, _)
DoubleMod(r, k, b) == IF k = 0 THEN r ELSE DoubleMod((2 * r) % b, k - 1, b)
\* The double nearest to a / b (not a binary fraction) lies above it:
\* what is cut off after the 53rd significant bit is more than half a
\* unit of that bit.
DoubleAbove(a, b) ==
    LET k == IF a >= b THEN 52 - Log2(a \div b) ELSE 52 + ShiftsTo(a, b)
    IN 2 * DoubleMod(a % b, k, b) > b
Fixed2(n, d) ==
    LET h0  == (100 * n) \div d
        rem == (100 * n) % d
        h   == IF 2 * rem < d THEN h0
               ELSE IF 2 * rem > d THEN h0 + 1
               ELSE IF IsDyadic(n, d)
                    THEN (IF h0 % 2 = 0 THEN h0 ELSE h0 + 1)
               ELSE IF DoubleAbove(n, d) THEN h0 + 1 ELSE h0
    IN ToString(h \div 100) \o "." \o Pad2(h % 100)

\* format!("{:.2}%", 100.0 * count / elapsed); a zero divisor gives the
\* float NaN (0/0) or inf (n/0).
SignalPercentage(count, elapsed) ==
    IF elapsed = 0
    THEN (IF count = 0 THEN "NaN%" ELSE "inf%")
    ELSE Fixed2(100 * count, elapsed) \o "%"

\* ------------------------------------------------------- the status entries

\* One Stat under its label.  value_type is always "string".
Stat(label, value, description, copyable, qr, masked) ==
    [label |-> label, value_type |-> "string", value |-> value,
     description |-> description, copyable |-> copyable, qr |-> qr,
     masked |-> masked]

\* LinearMap::insert: a label already there keeps its place and takes the
\* new entry, a new label goes to the end.
Insert(stats, e) ==
    IF \E i \in 1..Len(stats) : stats[i].label = e.label
    THEN [i \in 1..Len(stats) |->
            IF stats[i].label = e.label THEN e ELSE stats[i]]
    ELSE Append(stats, e)

RECURSIVE InsertAll(_, _)
InsertAll(stats, es) ==
    IF es = <<>> THEN stats ELSE InsertAll(Insert(stats, Head(es)), Tail(es))

Labels(stats) == {stats[i].label : i \in 1..Len(stats)}
Entry(stats, label) ==
    stats[CHOOSE i \in 1..Len(stats) : stats[i].label = label]

HasCreds(config) == config.username.some /\ config.password.some

\* addr.strip_suffix("onion").unwrap() panics on an address without the
\* suffix; it is only evaluated when both credentials are there.
CredsPanics(config, addr) ==
    HasCreds(config) /\ ~StripSuffix(addr, "onion").some

CredEntries(config, addr) ==
    IF ~HasCreds(config) THEN <<>>
    ELSE LET user == config.username.val
             pass == config.password.val
             addr_local == StripSuffix(addr, "onion").val \o "local"
         IN << Stat("Tor Quick Connect",
                    "btcstandup://" \o user \o ":" \o pass \o "@" \o addr
                        \o ":48332",
                    "Bitcoin-Standup Tor Quick Connect URL", TRUE, TRUE, TRUE),
               Stat("LAN Quick Connect",
                    "btcstandup://" \o user \o ":" \o pass \o "@" \o addr_local
                        \o ":443",
                    "Bitcoin-Standup LAN Quick Connect URL", TRUE, TRUE, TRUE),
               Stat("RPC Username", user, "Bitcoin RPC Username",
                    TRUE, FALSE, FALSE),
               Stat("RPC Password", pass, "Bitcoin RPC Password",
                    TRUE, FALSE, TRUE) >>

\* The window after which an active deployment is no longer shown.
ActiveWindow == 12096

\* A faulty variant: the window is compared with > instead of >=.
Bip9LabelStrict(bip9, blocks) ==
    CASE bip9.status = "defined"   -> "Defined"
      [] bip9.status = "started"   -> "Started"
      [] bip9.status = "locked_in" -> "Locked In"
      [] bip9.status = "active"    ->
            IF blocks > bip9.since + ActiveWindow THEN "suppressed" ELSE "Active"
      [] bip9.status = "failed"    -> "Active"

\* A faulty variant: a failed deployment is labelled "Failed".
Bip9LabelFailed(bip9, blocks) ==
    CASE bip9.status = "defined"   -> "Defined"
      [] bip9.status = "started"   -> "Started"
      [] bip9.status = "locked_in" -> "Locked In"
      [] bip9.status = "active"    ->
            IF blocks >= bip9.since + ActiveWindow THEN "suppressed" ELSE "Active"
      [] bip9.status = "failed"    -> "Failed"

\* The match on the Bip9 state: the status label, or "suppressed" where the
\* loop continues without emitting anything.
Bip9Label(bip9, blocks) ==
    CASE bip9.status = "defined"   -> "Defined"
      [] bip9.status = "started"   -> "Started"
      [] bip9.status = "locked_in" -> "Locked In"
      [] bip9.status = "active"    ->
            IF blocks >= bip9.since + ActiveWindow THEN "suppressed" ELSE "Active"
      [] bip9.status = "failed"    -> "Active"

\* A faulty variant: the signal percentage is added in every Bip9 state
\* that is shown.
SoftForkEntriesAlwaysSignal(sf_name, sf_data, blocks) ==
    LET sf_name_pretty == to_title_case(sf_name) IN
    IF sf_data.type = "buried" THEN <<>>
    ELSE LET status == Bip9Label(sf_data.bip9, blocks) IN
         IF status = "suppressed" THEN <<>>
         ELSE << Stat(sf_name_pretty \o " Status", status,
                      "The Bip9 deployment status for " \o sf_name_pretty,
                      FALSE, FALSE, FALSE),
                 Stat(sf_name_pretty \o " Start Time",
                      human_readable_timestamp(sf_data.bip9.start_time),
                      "The start time (UTC) of the Bip9 signaling period for "
                          \o sf_name_pretty,
                      FALSE, FALSE, FALSE),
                 Stat(sf_name_pretty \o " Timeout",
                      human_readable_timestamp(sf_data.bip9.timeout),
                      "The timeout time (UTC) of the Bip9 signaling period for "
                          \o sf_name_pretty,
                      FALSE, FALSE, FALSE),
                 Stat(sf_name_pretty \o " Signal Percentage",
                      SignalPercentage(sf_data.bip9.count,
                                       sf_data.bip9.elapsed),
                      "Percentage of the blocks in the current signaling window that are signaling for the activation of "
                          \o sf_name_pretty,
                      FALSE, FALSE, FALSE) >>

\* The entries one softforks item adds.
SoftForkEntries(sf_name, sf_data, blocks) ==
    LET sf_name_pretty == to_title_case(sf_name) IN
    IF sf_data.type = "buried" THEN <<>>
    ELSE LET status == Bip9Label(sf_data.bip9, blocks) IN
         IF status = "suppressed" THEN <<>>
         ELSE << Stat(sf_name_pretty \o " Status", status,
                      "The Bip9 deployment status for " \o sf_name_pretty,
                      FALSE, FALSE, FALSE),
                 Stat(sf_name_pretty \o " Start Time",
                      human_readable_timestamp(sf_data.bip9.start_time),
                      "The start time (UTC) of the Bip9 signaling period for "
                          \o sf_name_pretty,
                      FALSE, FALSE, FALSE),
                 Stat(sf_name_pretty \o " Timeout",
                      human_readable_timestamp(sf_data.bip9.timeout),
                      "The timeout time (UTC) of the Bip9 signaling period for "
                          \o sf_name_pretty,
                      FALSE, FALSE, FALSE) >>
              \o (IF sf_data.bip9.status = "started"
                  THEN << Stat(sf_name_pretty \o " Signal Percentage",
                               SignalPercentage(sf_data.bip9.count,
                                                sf_data.bip9.elapsed),
                               "Percentage of the blocks in the current signaling window that are signaling for the activation of "
                                   \o sf_name_pretty,
                               FALSE, FALSE, FALSE) >>
                  ELSE <<>>)

\* One softforks item makes the cycle panic: it is a Bip9 deployment that
\* is shown and its start time or timeout cannot be converted.
SoftForkPanics(sf_data, blocks) ==
    /\ sf_data.type = "bip9"
    /\ Bip9Label(sf_data.bip9, blocks) # "suppressed"
    /\ \/ TimestampPanics(sf_data.bip9.start_time)
       \/ TimestampPanics(sf_data.bip9.timeout)

\* for (sf_name, sf_data) in info.softforks
RECURSIVE SoftForkLoop(_, _, _)
SoftForkLoop(stats, softforks, blocks) ==
    IF softforks = <<>> THEN stats
    ELSE SoftForkLoop(
            InsertAll(stats, SoftForkEntries(Head(softforks).name,
                                             Head(softforks).fork, blocks)),
            Tail(softforks), blocks)

\* A faulty variant: equal counts still show the fraction.
SyncProgressInclusive(info) ==
    IF info.blocks <= info.headers
    THEN Fixed2(info.verificationprogress, 100) \o "%"
    ELSE "100%"

\* Sync Progress: format!("{:.2}%", 100.0 * verificationprogress).  The
\* fraction is kept in units of 10^-4 (a fraction of four decimals), so
\* the percentage is a whole number of hundredths and the doubles of the
\* fraction and of the product, each off by less than 10^-13, print as
\* exactly that number.
SyncProgress(info) ==
    IF info.blocks < info.headers
    THEN Fixed2(info.verificationprogress, 100) \o "%"
    ELSE "100%"

\* Disk Usage: size_on_disk is kept in MiB, so the GiB figure is
\* size / 1024 (bytes / 1024^3 in the code; both are exact as doubles).
DiskUsage(info) == Fixed2(info.size_on_disk, 1024) \o " GiB"

\* The softforks loop panics on one of its items.
ChainPanics(info) ==
    \E i \in 1..Len(info.softforks) :
        SoftForkPanics(info.softforks[i].fork, info.blocks)

\* What a successful chain-status query adds to the entries, when the
\* loop does not panic.
ChainEntries(stats, info) ==
    LET s1 == InsertAll(stats,
                << Stat("Block Height", ToString(info.headers),
                        "The current block height for the network",
                        FALSE, FALSE, FALSE),
                   Stat("Synced Block Height", ToString(info.blocks),
                        "The number of blocks the node has verified",
                        FALSE, FALSE, FALSE),
                   Stat("Sync Progress", SyncProgress(info),
                        "The percentage of the blockchain that has been verified",
                        FALSE, FALSE, FALSE) >>)
        s2 == SoftForkLoop(s1, info.softforks, info.blocks)
        s3 == Insert(s2, Stat("Disk Usage", DiskUsage(info),
                              "The blockchain size on disk",
                              FALSE, FALSE, FALSE))
    IN IF info.pruneheight > 0
       THEN Insert(s3, Stat("Prune Height", ToString(info.pruneheight),
                            "The number of blocks that have been deleted from disk",
                            FALSE, FALSE, FALSE))
       ELSE s3

\* What a successful network-status query adds.
NetworkEntries(stats, net) ==
    Insert(stats,
           Stat("Connections",
                ToString(net.connections) \o " (" \o ToString(net.connections_in)
                    \o " in / " \o ToString(net.connections_out) \o " out)",
                "The number of peers connected (inbound and outbound)",
                FALSE, FALSE, FALSE))

\* The Status Document as the chunks written to the file: the version line,
\* then one chunk per entry.
StatsVersion == 2
Serialize(stats) == <<[version |-> StatsVersion]>> \o stats

\* ------------------------------------------------ what the daemon reports

\* A Bip9 deployment that starts at the start time of taproot on mainnet.
Bip9Deployment(status, since, count, elapsed, timeout) ==
    [type |-> "bip9",
     bip9 |-> [status |-> status, start_time |-> U64OfNat(1619222400),
               timeout |-> timeout, since |-> since,
               count |-> count, elapsed |-> elapsed]]
\* The timeout of taproot on mainnet.
TaprootTimeout == U64OfNat(1628640000)
Buried == [type |-> "buried"]

\* The chain status of the daemon in the runs of the whole supervisor.
BaseChain ==
    [blocks |-> 499000, headers |-> 500000, verificationprogress |-> 9980,
     size_on_disk |-> 2048, pruneheight |-> 0,
     softforks |-> << [name |-> "segwit", fork |-> Buried] >>]

NetInfos == { [connections |-> 10, connections_in |-> 2, connections_out |-> 8] }

\* std::process::ExitStatus of the daemon: code() and signal().
Exited(c) == [code |-> Some(c), signal |-> None]
Signaled(s) == [code |-> None, signal |-> Some(s)]
NoStatus == [code |-> None, signal |-> None]
ExitStatuses == {Exited(0), Exited(1), Signaled(15), NoStatus}

\* ------------------------------------------------------------------- state

VARIABLES
    \* the world the supervisor runs in
    env,                \* EMBASSY_IP, PEER_TOR_ADDRESS, RPC_TOR_ADDRESS
    settings,           \* the Settings Document the config layer provides
    cli,                \* whether the bitcoin-cli binary can be run at all
    chain,              \* the daemon's chain status
    \* the supervisor process
    alive, exitCode, exitVia, run,
    \* main thread: main and inner_main
    pc, reindex, reindex_chainstate, config, btc_args, child_res, pruned,
    materialized,       \* the reindex step of this run went through
    prev,               \* the reindex state of the run before this one
    \* the ctrlc handler thread and the Shared Process Handle
    handlerInstalled, sigDelivered, sigPending, hpc, mutex, CHILD_PID, sent,
    \* the daemon child process
    child, childArgs,
    \* the proxy thread and the sidecar thread
    proxy, spc, stats, logged, seen,
    \* files
    cfgPresent, markers, deleted, backupignore, conf, tmp, pub, pubDoc

world == <<env, settings, cli, chain>>
proc == <<alive, exitCode, exitVia, run>>
mainv == <<pc, reindex, reindex_chainstate, config, btc_args, child_res, pruned,
           materialized, prev>>
NoRun == [materialized |-> FALSE, reindex |-> FALSE, reindex_chainstate |-> FALSE]
sigv == <<handlerInstalled, sigDelivered, sigPending, hpc, mutex, CHILD_PID, sent>>
childv == <<child, childArgs>>
thr == <<proxy, spc, stats, logged, seen>>
fs == <<cfgPresent, markers, deleted, backupignore, conf, tmp, pub, pubDoc>>
vars == <<world, proc, mainv, sigv, childv, thr, fs>>

NoChild == [state |-> "none", pid |-> 0, status |-> NoStatus]
NoFile == [exists |-> FALSE, content |-> <<>>]
File(content) == [exists |-> TRUE, content |-> content]

\* A supervisor process at its start: nothing computed, the Handle absent
\* (lazy_static CHILD_PID = Mutex::new(None)), no thread but main.
FreshProcess ==
    /\ alive = TRUE /\ exitCode = -1 /\ exitVia = "none"
    /\ pc = "check_reindex"
    /\ reindex = FALSE /\ reindex_chainstate = FALSE
    /\ config = MalformedSettings /\ btc_args = <<>>
    /\ child_res = NoStatus /\ pruned = FALSE
    /\ materialized = FALSE /\ prev = NoRun
    /\ handlerInstalled = FALSE /\ sigDelivered = 0 /\ sigPending = 0
    /\ hpc = "idle" /\ mutex = "free" /\ CHILD_PID = None /\ sent = <<>>
    /\ child = NoChild /\ childArgs = <<>>
    /\ proxy = "off" /\ spc = "off" /\ stats = <<>> /\ logged = {}
    /\ seen = <<>>

EmptyDisk ==
    /\ deleted = {} /\ backupignore = "none" /\ conf = "none"
    /\ tmp = NoFile /\ pub = NoFile /\ pubDoc = <<>>

GoodEnv(rpc) ==
    [ip |-> Some("172.18.0.1"), peer |-> Some("peerxyz.onion"), rpc |-> Some(rpc)]

\* Every environment, Settings Document and marker state, on a system
\* where the query tool cannot be run.
InitStartup ==
    /\ env \in [ip : EnvIps, peer : EnvPeerAddrs, rpc : EnvRpcAddrs]
    /\ settings \in SettingsDocs
    /\ cli = FALSE
    /\ markers \in SUBSET Markers
    /\ cfgPresent = TRUE

\* A system whose query tool runs, with a Settings Document that may
\* arrive late.
InitQuerying ==
    /\ \E w \in { <<GoodEnv("rpcxyz.onion"), BaseSettings>>,
                   <<GoodEnv("rpcxyz.onion"), WithCreds(BaseSettings)>>,
                   <<GoodEnv("rpcxyz.local"), WithCreds(BaseSettings)>> } :
          env = w[1] /\ settings = w[2]
    /\ cli = TRUE
    /\ markers = {}
    /\ cfgPresent = FALSE

Init ==
    /\ run = 1
    /\ chain = BaseChain
    /\ FreshProcess
    /\ EmptyDisk
    /\ (InitStartup \/ InitQuerying)

\* --------------------------------------------------------------- env vars

\* A faulty variant: a missing variable reads as the empty string
\* (unwrap_or_default).
VarOrEmpty(name) ==
    LET v == CASE name = "EMBASSY_IP" -> env.ip
               [] name = "PEER_TOR_ADDRESS" -> env.peer
               [] name = "RPC_TOR_ADDRESS" -> env.rpc
    IN IF v.some THEN v ELSE Some("")

\* std::env::var(name), as an Option: absent is the Err that `?` returns.
Var(name) ==
    CASE name = "EMBASSY_IP" -> env.ip
      [] name = "PEER_TOR_ADDRESS" -> env.peer
      [] name = "RPC_TOR_ADDRESS" -> env.rpc

\* ------------------------------------------------- how the process can end

\* inner_main returns Err: main returns it and the process ends with code 1.
MainFails ==
    /\ pc' = "failed"
    /\ alive' = FALSE /\ exitCode' = 1 /\ exitVia' = "error"
    /\ UNCHANGED run

\* The main thread panics: the process ends with code 101.
MainPanics ==
    /\ pc' = "panicked"
    /\ alive' = FALSE /\ exitCode' = 101 /\ exitVia' = "panic"
    /\ UNCHANGED run

\* ------------------------------------------------------------- main thread

\* main.rs:541
CheckReindex ==
    /\ alive /\ pc = "check_reindex"
    /\ reindex' = (MarkerReindex \in markers)
    /\ pc' = "check_reindex_chainstate"
    /\ UNCHANGED <<world, proc, reindex_chainstate, config, btc_args,
                   child_res, pruned, materialized, prev, sigv, childv, thr, fs>>

\* main.rs:542
CheckReindexChainstate ==
    /\ alive /\ pc = "check_reindex_chainstate"
    /\ reindex_chainstate' = (MarkerChainstate \in markers)
    /\ pc' = "set_handler"
    /\ UNCHANGED <<world, proc, reindex, config, btc_args, child_res, pruned,
                   materialized, prev,
                   sigv, childv, thr, fs>>

\* main.rs:543-553: ctrlc::set_handler(..)?
SetHandler ==
    /\ alive /\ pc = "set_handler"
    /\ \/ /\ handlerInstalled' = TRUE
          /\ pc' = "wait_config"
          /\ UNCHANGED proc
       \/ /\ MainFails
          /\ UNCHANGED handlerInstalled
    /\ UNCHANGED <<world, reindex, reindex_chainstate, config, btc_args,
                   child_res, pruned, materialized, prev, sigDelivered, sigPending, hpc, mutex,
                   CHILD_PID, sent, childv, thr, fs>>

\* main.rs:422-424: poll for the Settings Document once a second.
WaitConfig ==
    /\ alive /\ pc = "wait_config"
    /\ pc' = IF cfgPresent THEN "load_config" ELSE "wait_config"
    /\ UNCHANGED <<world, proc, reindex, reindex_chainstate, config, btc_args,
                   child_res, pruned, materialized, prev, sigv, childv, thr, fs>>

\* The configuration layer writes the Settings Document.
ConfigAppears ==
    /\ ~cfgPresent
    /\ cfgPresent' = TRUE
    /\ UNCHANGED <<world, proc, mainv, sigv, childv, thr, markers, deleted,
                   backupignore, conf, tmp, pub, pubDoc>>

\* main.rs:425-426: open the file and parse it as a mapping.
LoadConfig ==
    /\ alive /\ pc = "load_config"
    /\ IF settings.valid
       THEN /\ config' = settings
            /\ pc' = "read_peer"
            /\ UNCHANGED proc
       ELSE /\ MainFails
            /\ UNCHANGED config
    /\ UNCHANGED <<world, reindex, reindex_chainstate, btc_args, child_res,
                   pruned, materialized, prev, sigv, childv, thr, fs>>

\* main.rs:428: var("PEER_TOR_ADDRESS")?
ReadPeerAddr ==
    /\ alive /\ pc = "read_peer"
    /\ IF Var("PEER_TOR_ADDRESS").some
       THEN pc' = "read_rpc" /\ UNCHANGED proc
       ELSE MainFails
    /\ UNCHANGED <<world, reindex, reindex_chainstate, config, btc_args,
                   child_res, pruned, materialized, prev, sigv, childv, thr, fs>>

\* main.rs:429: var("RPC_TOR_ADDRESS")?
ReadRpcAddr ==
    /\ alive /\ pc = "read_rpc"
    /\ IF Var("RPC_TOR_ADDRESS").some
       THEN pc' = "build_args" /\ UNCHANGED proc
       ELSE MainFails
    /\ UNCHANGED <<world, reindex, reindex_chainstate, config, btc_args,
                   child_res, pruned, materialized, prev, sigv, childv, thr, fs>>

\* main.rs:430-436: the base arguments; var("EMBASSY_IP")?
BuildArgs ==
    /\ alive /\ pc = "build_args"
    /\ IF Var("EMBASSY_IP").some
       THEN /\ btc_args' = << "-onion=" \o Var("EMBASSY_IP").val \o ":9050",
                              "-externalip=" \o Var("PEER_TOR_ADDRESS").val,
                              "-datadir=/root/.bitcoin",
                              "-deprecatedrpc=warnings",
                              "-conf=/root/.bitcoin/bitcoin.conf" >>
            /\ pc' = "onlyonion"
            /\ UNCHANGED proc
       ELSE /\ MainFails
            /\ UNCHANGED btc_args
    /\ UNCHANGED <<world, reindex, reindex_chainstate, config, child_res,
                   pruned, materialized, prev, sigv, childv, thr, fs>>

\* main.rs:437-447: advanced.peers.onlyonion, false when not a bool there.
OnlyOnion ==
    /\ alive /\ pc = "onlyonion"
    /\ btc_args' = IF config.advanced /\ config.onlyonion = "true"
                   THEN Append(btc_args,
                               "-proxy=" \o Var("EMBASSY_IP").val \o ":9050")
                   ELSE btc_args
    /\ pc' = "backupignore"
    /\ UNCHANGED <<world, proc, reindex, reindex_chainstate, config, child_res,
                   pruned, materialized, prev, sigv, childv, thr, fs>>

\* main.rs:450: File::create opens .backupignore and cuts it to nothing,
\* whatever it held ("partial": the file is there with less than its four
\* lines); when it fails the file is as it was.
BackupIgnoreCreate ==
    /\ alive /\ pc = "backupignore"
    /\ \/ /\ backupignore' = "partial"
          /\ pc' = "backupignore_write"
          /\ UNCHANGED proc
       \/ /\ MainFails
          /\ UNCHANGED backupignore
    /\ UNCHANGED <<world, reindex, reindex_chainstate, config, btc_args,
                   child_res, pruned, materialized, prev, sigv, childv, thr, cfgPresent, markers,
                   deleted, conf, tmp, pub, pubDoc>>

\* main.rs:451-455: the four lines are written one after the other and
\* the file is flushed; a write that fails leaves the lines before it.
BackupIgnoreWrite ==
    /\ alive /\ pc = "backupignore_write"
    /\ \/ /\ backupignore' = "written"
          /\ pc' = "reindex"
          /\ UNCHANGED proc
       \/ /\ MainFails
          /\ UNCHANGED backupignore
    /\ UNCHANGED <<world, reindex, reindex_chainstate, config, btc_args,
                   child_res, pruned, materialized, prev, sigv, childv, thr, cfgPresent, markers,
                   deleted, conf, tmp, pub, pubDoc>>

\* A faulty variant: the marker is read but never deleted.
RemoveMarkerKeeps(m) ==
    /\ materialized' = TRUE
    /\ pc' = "render"
    /\ UNCHANGED <<proc, markers, deleted>>

\* A faulty variant: a marker that is already missing is an error too.
RemoveMarkerStrict(m) ==
    IF m \in markers
    THEN \/ /\ markers' = markers \ {m}
            /\ deleted' = deleted \cup {m}
            /\ materialized' = TRUE
            /\ pc' = "render"
            /\ UNCHANGED proc
         \/ /\ MainFails
            /\ UNCHANGED <<markers, deleted, materialized>>
    ELSE /\ MainFails
         /\ UNCHANGED <<markers, deleted, materialized>>

\* fs::remove_file(marker) and the match on its result (main.rs:459-463,
\* 466-470): Ok and NotFound go on, any other error is returned.
RemoveMarker(m) ==
    \/ /\ markers' = markers \ {m}
       /\ deleted' = IF m \in markers THEN deleted \cup {m} ELSE deleted
       /\ materialized' = TRUE
       /\ pc' = "render"
       /\ UNCHANGED proc
    \/ /\ m \in markers
       /\ MainFails
       /\ UNCHANGED <<markers, deleted, materialized>>

\* A faulty variant: the chainstate-only marker is looked at first.
ReindexChainstateFirst ==
    /\ alive /\ pc = "reindex"
    /\ IF reindex_chainstate
       THEN /\ btc_args' = Append(btc_args, "-reindex-chainstate")
            /\ RemoveMarker(MarkerChainstate)
       ELSE IF reindex
       THEN /\ btc_args' = Append(btc_args, "-reindex")
            /\ RemoveMarker(MarkerReindex)
       ELSE /\ materialized' = TRUE
            /\ pc' = "render"
            /\ UNCHANGED <<btc_args, markers, deleted, proc>>
    /\ UNCHANGED <<world, reindex, reindex_chainstate, config, child_res,
                   pruned, prev, sigv, childv, thr, cfgPresent, backupignore, conf,
                   tmp, pub, pubDoc>>

\* main.rs:457-471
Reindex ==
    /\ alive /\ pc = "reindex"
    /\ IF reindex
       THEN /\ btc_args' = Append(btc_args, "-reindex")
            /\ RemoveMarker(MarkerReindex)
       ELSE IF reindex_chainstate
       THEN /\ btc_args' = Append(btc_args, "-reindex-chainstate")
            /\ RemoveMarker(MarkerChainstate)
       ELSE /\ materialized' = TRUE
            /\ pc' = "render"
            /\ UNCHANGED <<btc_args, markers, deleted, proc>>
    /\ UNCHANGED <<world, reindex, reindex_chainstate, config, child_res,
                   pruned, prev, sigv, childv, thr, cfgPresent, backupignore, conf,
                   tmp, pub, pubDoc>>

\* Something else removes a marker file.  The supervisor looks at the
\* markers from its start to the end of the reindex step only, so a removal
\* at any other time is the same as one at the start of the next run.
MarkerVanishes ==
    /\ alive
    /\ pc \in {"check_reindex", "check_reindex_chainstate", "set_handler",
              "wait_config", "load_config", "read_peer", "read_rpc",
              "build_args", "onlyonion", "backupignore", "backupignore_write",
              "reindex"}
    /\ \E m \in markers : markers' = markers \ {m}
    /\ UNCHANGED <<world, proc, mainv, sigv, childv, thr, cfgPresent, deleted,
                   backupignore, conf, tmp, pub, pubDoc>>

\* main.rs:474-480: the arguments of io::copy, in order: the template is
\* opened, the pattern parsed, and File::create opens bitcoin.conf and
\* cuts it to nothing ("partial": the file is there, not all of it).  A
\* failure of any of them leaves the file as it was.
RenderCreate ==
    /\ alive /\ pc = "render"
    /\ \/ /\ conf' = "partial"
          /\ pc' = "render_copy"
          /\ UNCHANGED proc
       \/ /\ MainFails
          /\ UNCHANGED conf
    /\ UNCHANGED <<world, reindex, reindex_chainstate, config, btc_args,
                   child_res, pruned, materialized, prev, sigv, childv, thr, cfgPresent, markers,
                   deleted, backupignore, tmp, pub, pubDoc>>

\* main.rs:473, 481: io::copy renders the template into the file; a
\* template or write error leaves what was written so far.
RenderCopy ==
    /\ alive /\ pc = "render_copy"
    /\ \/ /\ conf' = "rendered"
          /\ pc' = "spawn"
          /\ UNCHANGED proc
       \/ /\ MainFails
          /\ UNCHANGED conf
    /\ UNCHANGED <<world, reindex, reindex_chainstate, config, btc_args,
                   child_res, pruned, materialized, prev, sigv, childv, thr, cfgPresent, markers,
                   deleted, backupignore, tmp, pub, pubDoc>>

\* The process id the daemon of a run gets.
DaemonPid == 100 + run

\* main.rs:482-484: Command::new("bitcoind").args(btc_args).spawn()?
Spawn ==
    /\ alive /\ pc = "spawn"
    /\ \/ /\ child' = [state |-> "running", pid |-> DaemonPid,
                       status |-> NoStatus]
          /\ childArgs' = btc_args
          /\ pc' = "lock_pid"
          /\ UNCHANGED proc
       \/ /\ MainFails
          /\ UNCHANGED childv
    /\ UNCHANGED <<world, reindex, reindex_chainstate, config, btc_args,
                   child_res, pruned, materialized, prev, sigv, thr, fs>>

\* A faulty variant: the write is made without taking the mutex.
LockPidUnlocked ==
    /\ alive /\ pc = "lock_pid"
    /\ pc' = "store_pid"
    /\ UNCHANGED <<world, proc, reindex, reindex_chainstate, config, btc_args,
                   child_res, pruned, materialized, prev, sigv, childv, thr, fs>>

\* main.rs:485-486: child.id(), then CHILD_PID.lock()
LockPid ==
    /\ alive /\ pc = "lock_pid"
    /\ mutex = "free"
    /\ mutex' = "main"
    /\ pc' = "store_pid"
    /\ UNCHANGED <<world, proc, reindex, reindex_chainstate, config, btc_args,
                   child_res, pruned, materialized, prev, handlerInstalled, sigDelivered,
                   sigPending, hpc, CHILD_PID, sent, childv, thr, fs>>

\* main.rs:486: the write through the guard, which is then dropped.
StorePid ==
    /\ alive /\ pc = "store_pid"
    /\ CHILD_PID' = Some(child.pid)
    /\ mutex' = "free"
    /\ pc' = "pruned"
    /\ UNCHANGED <<world, proc, reindex, reindex_chainstate, config, btc_args,
                   child_res, pruned, materialized, prev, handlerInstalled, sigDelivered,
                   sigPending, hpc, sent, childv, thr, fs>>

\* main.rs:487-490: indexing the mapping with a missing "advanced" key
\* panics; a missing key further down reads as null.
Pruned ==
    /\ alive /\ pc = "pruned"
    /\ IF config.advanced
       THEN /\ pruned' = (config.mode = "automatic")
            /\ pc' = "proxy"
            /\ UNCHANGED proc
       ELSE /\ MainPanics
            /\ UNCHANGED pruned
    /\ UNCHANGED <<world, reindex, reindex_chainstate, config, btc_args,
                   child_res, materialized, prev, sigv, childv, thr, fs>>

\* main.rs:491-514: in pruned mode build the proxy state ("<ip>:9050"
\* .parse()?, then onlyonion.as_bool().unwrap()) and start its thread.
Proxy ==
    /\ alive /\ pc = "proxy"
    /\ IF ~pruned
       THEN /\ pc' = "spawn_sidecar"
            /\ UNCHANGED <<proc, proxy>>
       ELSE IF Var("EMBASSY_IP").val \notin IpLiterals
       THEN /\ MainFails
            /\ UNCHANGED proxy
       ELSE IF config.onlyonion \notin {"true", "false"}
       THEN /\ MainPanics
            /\ UNCHANGED proxy
       ELSE /\ proxy' = "running"
            /\ pc' = "spawn_sidecar"
            /\ UNCHANGED proc
    /\ UNCHANGED <<world, reindex, reindex_chainstate, config, btc_args,
                   child_res, pruned, materialized, prev, sigv, childv, spc, stats, logged,
                   seen, fs>>

\* main.rs:506-511: the proxy's result is unwrapped in its own thread.
ProxyCrash ==
    /\ alive /\ proxy = "running"
    /\ proxy' = "panicked"
    /\ UNCHANGED <<world, proc, mainv, sigv, childv, spc, stats, logged,
                   seen, fs>>

\* main.rs:515-520: start the sidecar thread, which begins a cycle at once.
SpawnSidecar ==
    /\ alive /\ pc = "spawn_sidecar"
    /\ spc' = "sleep"
    /\ pc' = "wait"
    /\ UNCHANGED <<world, proc, reindex, reindex_chainstate, config, btc_args,
                   child_res, pruned, materialized, prev, sigv, childv, proxy, stats, logged,
                   seen, fs>>

\* main.rs:521: child.wait()? returns once the daemon has ended, with its
\* status, or with the error of the wait (the child is gone then, too).
Wait ==
    /\ alive /\ pc = "wait"
    /\ child.state = "zombie"
    /\ child' = [child EXCEPT !.state = "reaped"]
    /\ \/ /\ child_res' = child.status
          /\ pc' = "exit_code"
          /\ UNCHANGED proc
       \/ /\ MainFails
          /\ UNCHANGED child_res
    /\ UNCHANGED <<world, reindex, reindex_chainstate, config, btc_args,
                   pruned, materialized, prev, sigv, childArgs, thr, fs>>

SignalBase == 128

\* A faulty variant: the signal number without the base.
ExitCodeOfRawSignal(status) ==
    IF status.code.some THEN status.code.val
    ELSE IF status.signal.some THEN status.signal.val
    ELSE 1

\* main.rs:522-534: the code the supervisor ends with.
ExitCodeOf(status) ==
    IF status.code.some THEN status.code.val
    ELSE IF status.signal.some THEN SignalBase + status.signal.val
    ELSE 1

\* main.rs:522-536: std::process::exit(code)
ExitWithCode ==
    /\ alive /\ pc = "exit_code"
    /\ pc' = "exited"
    /\ alive' = FALSE
    /\ exitCode' = ExitCodeOf(child_res) % 256
    /\ exitVia' = "child"
    /\ UNCHANGED <<world, run, reindex, reindex_chainstate, config, btc_args,
                   child_res, pruned, materialized, prev, sigv, childv, thr, fs>>

\* ------------------------------------------------------------- the daemon

\* The daemon ends, by itself or because of a signal it got.
ChildExit ==
    /\ alive /\ child.state = "running"
    /\ \E st \in ExitStatuses :
          child' = [child EXCEPT !.state = "zombie", !.status = st]
    /\ UNCHANGED <<world, proc, mainv, sigv, childArgs, thr, fs>>

\* ------------------------------------------------------ the ctrlc handler

\* main.rs:540-542: a termination signal that reaches the process before
\* ctrlc::set_handler has run has its default action: the process is
\* killed by the signal.  It ends without an exit code and nothing of the
\* program runs any more.
KilledBySignal ==
    /\ alive /\ ~handlerInstalled
    /\ sigDelivered < MaxSignals
    /\ sigDelivered' = sigDelivered + 1
    /\ alive' = FALSE /\ exitCode' = -1 /\ exitVia' = "killed"
    /\ UNCHANGED <<world, run, mainv, handlerInstalled, sigPending, hpc, mutex,
                   CHILD_PID, sent, childv, thr, fs>>

\* A termination signal reaches the process once the handler is installed;
\* the ctrlc thread is woken.
DeliverSignal ==
    /\ alive /\ handlerInstalled
    /\ sigDelivered < MaxSignals
    /\ sigDelivered' = sigDelivered + 1
    /\ sigPending' = sigPending + 1
    /\ UNCHANGED <<world, proc, mainv, handlerInstalled, hpc, mutex,
                   CHILD_PID, sent, childv, thr, fs>>

\* main.rs:544: CHILD_PID.lock(); the guard lives to the end of the if-let.
HandlerLock ==
    /\ alive /\ hpc = "idle" /\ sigPending > 0
    /\ mutex = "free"
    /\ mutex' = "handler"
    /\ hpc' = "locked"
    /\ sigPending' = sigPending - 1
    /\ UNCHANGED <<world, proc, mainv, handlerInstalled, sigDelivered,
                   CHILD_PID, sent, childv, thr, fs>>

\* A faulty variant: the code of an interrupt (128 + SIGINT) instead.
AbsentExitCodeSigint == 128 + 2

\* The code the handler ends the process with when the Handle is absent.
AbsentExitCode == 143

\* main.rs:544-552.  kill(pid, SIGTERM).unwrap(): the signal goes to the
\* process that has the pid.  After the daemon was waited for, the pid
\* names no process (kill fails, the unwrap panics in the handler thread)
\* or a process that was given the pid since.
HandlerAct ==
    /\ alive /\ hpc = "locked"
    /\ IF CHILD_PID.some
       THEN /\ \/ /\ child.state \in {"running", "zombie"}
                  /\ sent' = Append(sent, [pid |-> CHILD_PID.val,
                                           target |-> child.state])
                  /\ hpc' = "idle"
               \/ /\ child.state = "reaped"
                  /\ \/ /\ sent' = Append(sent, [pid |-> CHILD_PID.val,
                                                 target |-> "stranger"])
                        /\ hpc' = "idle"
                     \/ /\ hpc' = "panicked"
                        /\ UNCHANGED sent
            /\ mutex' = "free"
            /\ UNCHANGED proc
       ELSE /\ alive' = FALSE
            /\ exitCode' = AbsentExitCode % 256
            /\ exitVia' = "handler"
            /\ hpc' = "exited"
            /\ UNCHANGED <<run, mutex, sent>>
    /\ UNCHANGED <<world, mainv, handlerInstalled, sigDelivered, sigPending,
                   CHILD_PID, childv, thr, fs>>

\* ------------------------------------------------------------ the sidecar

\* How one bitcoin-cli query ends: the tool could not be run (output()?
\* fails), or it ran and exited with a code, with a response that decodes
\* as the expected JSON or does not.
CannotRun == [ran |-> FALSE, code |-> -1, valid |-> FALSE]
Ran(code, valid) == [ran |-> TRUE, code |-> code, valid |-> valid]

\* Only a running daemon answers; without one the tool fails to connect.
QueryResults ==
    IF ~cli THEN {CannotRun}
    ELSE IF child.state = "running"
    THEN {CannotRun, Ran(0, TRUE), Ran(0, FALSE), Ran(28, FALSE), Ran(1, FALSE)}
    ELSE {CannotRun, Ran(1, FALSE)}

\* A faulty variant: every exit counts as a success.
SuccessAlways(r) == TRUE

\* info_res.status.success()
Success(r) == r.code = 0
BusyCode == 28

\* A faulty variant: exit code 28 is not told apart from other failures.
IsBusyNever(r) == FALSE

\* info_res.status.code() == Some(28)
IsBusy(r) == r.code = BusyCode

\* sidecar returns Err(e) (main.rs:516-519): the closure logs it and the
\* loop sleeps.
CycleErr ==
    /\ logged' = logged \cup {"ERROR IN SIDECAR"}
    /\ stats' = <<>>
    /\ spc' = "sleep"

\* main.rs:113-381: a cycle starts: the credential entries, then the
\* chain-status query and what it adds.  seen keeps the exit codes of the
\* cycle's queries, logged what the cycle wrote to the diagnostic output.
\* A panic (the unwrap at 136, a time conversion in the softforks loop)
\* ends the sidecar thread with what it had collected.
SidecarChainQuery ==
    /\ alive /\ spc = "sleep"
    /\ IF CredsPanics(config, Var("RPC_TOR_ADDRESS").val)
       THEN /\ spc' = "panicked"
            /\ UNCHANGED <<stats, logged, seen>>
       ELSE \E r \in QueryResults :
            /\ seen' = <<r.code>>
            /\ IF ~r.ran \/ (Success(r) /\ ~r.valid)
               THEN /\ logged' = {"ERROR IN SIDECAR"}
                    /\ stats' = <<>>
                    /\ spc' = "sleep"
               ELSE IF Success(r) /\ ChainPanics(chain)
               THEN /\ stats' = <<>>
                    /\ logged' = {}
                    /\ spc' = "panicked"
               ELSE IF Success(r)
               THEN /\ stats' = ChainEntries(
                                  CredEntries(config, Var("RPC_TOR_ADDRESS").val),
                                  chain)
                    /\ logged' = {}
                    /\ spc' = "net"
               ELSE IF IsBusy(r)
               THEN /\ stats' = <<>>
                    /\ logged' = {}
                    /\ spc' = "sleep"
               ELSE /\ stats' = CredEntries(config, Var("RPC_TOR_ADDRESS").val)
                    /\ logged' = {"Error updating blockchain info"}
                    /\ spc' = "net"
    /\ UNCHANGED <<world, proc, mainv, sigv, childv, proxy, fs>>

\* main.rs:382-406: the network-status query.
SidecarNetQuery ==
    /\ alive /\ spc = "net"
    /\ \E r \in QueryResults :
        /\ seen' = Append(seen, r.code)
        /\ IF ~r.ran \/ (Success(r) /\ ~r.valid)
           THEN CycleErr
           ELSE IF Success(r)
           THEN /\ \E net \in NetInfos : stats' = NetworkEntries(stats, net)
                /\ spc' = "create"
                /\ UNCHANGED logged
           ELSE IF IsBusy(r)
           THEN /\ stats' = <<>>
                /\ spc' = "sleep"
                /\ UNCHANGED logged
           ELSE /\ logged' = logged \cup {"Error updating network info"}
                /\ spc' = "create"
                /\ UNCHANGED stats
    /\ UNCHANGED <<world, proc, mainv, sigv, childv, proxy, fs>>

\* The two paths of the publication (main.rs:408, 415-416).
StatsPath == "pub"

\* A faulty variant: the document is written in place.
TmpPathInPlace == StatsPath

TmpPath == "tmp"

\* The file at a path, and the files after one is replaced.
FileAt(path) == IF path = StatsPath THEN pub ELSE tmp
WriteFile(path, f) ==
    /\ pub' = IF path = StatsPath THEN f ELSE pub
    /\ tmp' = IF path = StatsPath THEN tmp ELSE f

\* main.rs:408: File::create truncates or creates the temporary file.
SidecarCreate ==
    /\ alive /\ spc = "create"
    /\ \/ /\ WriteFile(TmpPath, File(<<>>))
          /\ spc' = "write"
          /\ UNCHANGED <<stats, logged, seen>>
       \/ /\ CycleErr
          /\ UNCHANGED <<tmp, pub, seen>>
    /\ UNCHANGED <<world, proc, mainv, sigv, childv, proxy, cfgPresent,
                   markers, deleted, backupignore, conf, pubDoc>>

\* main.rs:407-413: serde_yaml::to_writer writes the document piece by
\* piece; a write can fail and leave what is there.
SidecarWrite ==
    /\ alive /\ spc = "write"
    /\ LET doc == Serialize(stats)
           n == Len(FileAt(TmpPath).content)
       IN \/ /\ WriteFile(TmpPath, File(SubSeq(doc, 1, n + 1)))
             /\ spc' = IF n + 1 = Len(doc) THEN "rename" ELSE "write"
             /\ UNCHANGED <<stats, logged, seen>>
          \/ /\ CycleErr
             /\ UNCHANGED <<tmp, pub, seen>>
    /\ UNCHANGED <<world, proc, mainv, sigv, childv, proxy, cfgPresent,
                   markers, deleted, backupignore, conf, pubDoc>>

\* main.rs:414-418: rename the temporary file over the published one.
\* pubDoc remembers the entries of the cycle that published.
SidecarRename ==
    /\ alive /\ spc = "rename"
    /\ \/ /\ pub' = FileAt(TmpPath)
          /\ tmp' = NoFile
          /\ pubDoc' = stats
          /\ stats' = <<>>
          /\ spc' = "sleep"
          /\ UNCHANGED <<logged, seen>>
       \/ /\ CycleErr
          /\ UNCHANGED <<tmp, pub, pubDoc, seen>>
    /\ UNCHANGED <<world, proc, mainv, sigv, childv, proxy, cfgPresent,
                   markers, deleted, backupignore, conf>>

\* --------------------------------------------------------------- restarts

\* The service manager starts the supervisor again after it has ended: a
\* new process (and later a new daemon) on the files the old one left.
Restart ==
    /\ ~alive
    /\ run < MaxRuns
    /\ run' = run + 1
    /\ alive' = TRUE /\ exitCode' = -1 /\ exitVia' = "none"
    /\ pc' = "check_reindex"
    /\ reindex' = FALSE /\ reindex_chainstate' = FALSE
    /\ config' = MalformedSettings /\ btc_args' = <<>>
    /\ child_res' = NoStatus /\ pruned' = FALSE
    /\ materialized' = FALSE
    /\ prev' = [materialized |-> materialized, reindex |-> reindex,
                reindex_chainstate |-> reindex_chainstate]
    /\ handlerInstalled' = FALSE /\ sigDelivered' = 0 /\ sigPending' = 0
    /\ hpc' = "idle" /\ mutex' = "free" /\ CHILD_PID' = None /\ sent' = <<>>
    /\ child' = NoChild /\ childArgs' = <<>>
    /\ proxy' = "off" /\ spc' = "off" /\ stats' = <<>> /\ logged' = {}
    /\ seen' = <<>>
    /\ deleted' = {}
    /\ UNCHANGED <<world, cfgPresent, markers, backupignore, conf, tmp, pub,
                   pubDoc>>

\* ---------------------------------------------------------- specification

Next ==
    \/ CheckReindex \/ CheckReindexChainstate \/ SetHandler
    \/ WaitConfig \/ ConfigAppears \/ LoadConfig
    \/ ReadPeerAddr \/ ReadRpcAddr \/ BuildArgs \/ OnlyOnion
    \/ BackupIgnoreCreate \/ BackupIgnoreWrite \/ Reindex \/ MarkerVanishes
    \/ RenderCreate \/ RenderCopy
    \/ Spawn \/ LockPid \/ StorePid \/ Pruned \/ Proxy \/ ProxyCrash
    \/ SpawnSidecar \/ Wait \/ ExitWithCode
    \/ ChildExit
    \/ KilledBySignal \/ DeliverSignal \/ HandlerLock \/ HandlerAct
    \/ SidecarChainQuery \/ SidecarNetQuery \/ SidecarCreate
    \/ SidecarWrite \/ SidecarRename
    \/ Restart

Spec == Init /\ [][Next]_vars

\* ------------------------------------------- the entries of one cycle
\*
\* A second specification for what the chain-status half of a cycle emits:
\* the supervisor waits on a running daemon with the sidecar asleep, the
\* daemon reports any chain status of StatsChains, and the cycle's first
\* half runs.

MaxSoftForks == 2
SoftForkNames == {"csv", "taproot", "testdummy"}
Heights == {12095, 12096, 112000, 112095, 112096, 112200}
Sinces == {0, 100000}

\* Buried deployments; Bip9 deployments in every state with the timeout
\* of taproot; a started one whose signal percentage lies half way
\* between two hundredths (100 * 1 / 800 = 0.125); and deployments that
\* never time out, for which the daemon reports i64::MAX.
Forks ==
    {Buried}
    \cup {Bip9Deployment(st, since, 0, 0, TaprootTimeout) :
            st \in {"defined", "locked_in", "active", "failed"},
            since \in Sinces}
    \cup {Bip9Deployment("started", since, 900, 1000, TaprootTimeout) :
            since \in Sinces}
    \cup {Bip9Deployment("started", 0, 1, 800, TaprootTimeout)}
    \cup {Bip9Deployment(st, 100000, 0, 0, I64Max) : st \in {"defined", "active"}}

\* info.softforks is a map: the names are distinct, the order is the
\* daemon's.
SoftForkLists ==
    UNION { { l \in [1..n -> [name : SoftForkNames, fork : Forks]] :
                \A i, j \in 1..n : i # j => l[i].name # l[j].name } :
            n \in 0..MaxSoftForks }

\* Heights around the header count of BaseChain, and verification progress
\* (in units of 10^-4) from nothing to all.
SyncHeights == {0, 499000, 499999, 500000, 500001}
Progresses == {0, 1234, 9980, 9999, 10000}

StatsChains ==
    { [BaseChain EXCEPT !.blocks = b, !.softforks = l] :
        b \in Heights, l \in SoftForkLists }
    \cup { [BaseChain EXCEPT !.blocks = b, !.verificationprogress = v] :
             b \in SyncHeights, v \in Progresses }

\* The main thread in child.wait() (main.rs:521), the sidecar before a
\* cycle, nothing published yet.
InitStats ==
    /\ run = 1
    /\ chain \in StatsChains
    /\ env = GoodEnv("rpcxyz.onion")
    /\ settings = WithCreds(BaseSettings)
    /\ cli = TRUE
    /\ alive = TRUE /\ exitCode = -1 /\ exitVia = "none"
    /\ pc = "wait"
    /\ reindex = FALSE /\ reindex_chainstate = FALSE
    /\ config = settings
    /\ btc_args = << "-onion=172.18.0.1:9050",
                     "-externalip=peerxyz.onion",
                     "-datadir=/root/.bitcoin",
                     "-deprecatedrpc=warnings",
                     "-conf=/root/.bitcoin/bitcoin.conf" >>
    /\ child_res = NoStatus /\ pruned = FALSE
    /\ materialized = TRUE /\ prev = NoRun
    /\ handlerInstalled = TRUE /\ sigDelivered = 0 /\ sigPending = 0
    /\ hpc = "idle" /\ mutex = "free"
    /\ CHILD_PID = Some(DaemonPid) /\ sent = <<>>
    /\ child = [state |-> "running", pid |-> DaemonPid, status |-> NoStatus]
    /\ childArgs = btc_args
    /\ proxy = "off" /\ spc = "sleep" /\ stats = <<>> /\ logged = {}
    /\ seen = <<>>
    /\ cfgPresent = TRUE /\ markers = {}
    /\ deleted = {} /\ backupignore = "written" /\ conf = "rendered"
    /\ tmp = NoFile /\ pub = NoFile /\ pubDoc = <<>>

NextStats == SidecarChainQuery

SpecStats == InitStats /\ [][NextStats]_vars

\* ------------------------------------------------------------------ claims

\* A step of the handler that ends its invocation (HandlerAct).
HandlerActs == alive /\ hpc = "locked" /\ hpc' # "locked"

\* A step in which a termination signal takes effect: the process is
\* killed by it, or the handler acts on it.
SignalActs == (alive /\ exitVia' = "killed") \/ HandlerActs

\* C1 (as claimed): when a termination signal takes effect while the
\* Shared Process Handle is absent, the process exits with code 143, no
\* signal has been or is sent to any process id, and the handler thread
\* does not panic.
C1_AbsentHandleExits143 ==
    [][(SignalActs /\ ~CHILD_PID.some)
         => /\ ~alive' /\ exitCode' = 143
            /\ hpc' # "panicked"
            /\ sent = <<>> /\ sent' = <<>>]_vars

\* C1 (amended): when the handler runs while the Shared Process Handle is
\* absent, the process exits with code 143, no signal has been or is sent
\* to any process id, and the handler thread does not panic; a signal that
\* arrives before the handler is installed kills the process instead,
\* which then has no exit code, and that happens only before the daemon
\* is spawned and sends no signal either.
C1_AbsentHandleExits143Amended ==
    /\ [][(HandlerActs /\ ~CHILD_PID.some)
            => /\ ~alive' /\ exitCode' = 143 /\ exitVia' = "handler"
               /\ hpc' = "exited"
               /\ sent = <<>> /\ sent' = <<>>]_vars
    /\ [][(alive /\ exitVia' = "killed")
            => /\ ~handlerInstalled /\ ~CHILD_PID.some
               /\ ~alive' /\ exitCode' = -1
               /\ child' = NoChild /\ hpc' = "idle"
               /\ sent' = <<>>]_vars
    /\ [](handlerInstalled => exitVia # "killed")

\* A signal handled before the daemon was spawned ended the process.
C1_Witness ==
    /\ ~alive /\ exitVia = "handler" /\ exitCode = 143
    /\ child.state = "none" /\ sent = <<>>

\* C2 (as claimed): whenever the handler takes the lock and finds the
\* Handle absent, the daemon has not been spawned yet.
C2_AbsentOnlyBeforeSpawn ==
    [][(alive /\ hpc = "idle" /\ hpc' = "locked" /\ ~CHILD_PID.some)
         => child.state = "none"]_vars

\* C3: the exit after the daemon ended carries the daemon's own code, or
\* 128 + the signal number, or 1, by the first of the three cases that
\* applies, and after the process has ended nothing of it changes but by
\* the start of a new process.
C3_ExitCodeMapping ==
    /\ [](exitVia = "child" =>
            /\ ~alive /\ pc = "exited" /\ child.state = "reaped"
            /\ child_res = child.status
            /\ child.status.code.some => exitCode = child.status.code.val
            /\ (~child.status.code.some /\ child.status.signal.some)
                  => exitCode = 128 + child.status.signal.val
            /\ (~child.status.code.some /\ ~child.status.signal.some)
                  => exitCode = 1)
    /\ [][~alive => (run' # run \/ UNCHANGED <<proc, mainv, sigv, childv, thr>>)]_vars

\* The daemon was ended by SIGTERM and the supervisor ended with 143.
C3_Witness ==
    /\ exitVia = "child" /\ child.status = Signaled(15) /\ exitCode = 143

\* C4 (as claimed, for a run that has ended): with the pid recorded, a
\* termination signal relayed and the daemon ended, the supervisor has
\* ended with the code mapped from the daemon's status.
C4_ExitsWithMappedCode ==
    (/\ ~alive /\ CHILD_PID.some /\ sent # <<>>
     /\ child.state \in {"zombie", "reaped"})
        => (exitVia = "child" /\ exitCode = ExitCodeOf(child.status) % 256)

HasArg(a) == \E i \in 1..Len(btc_args) : btc_args[i] = a

\* C5 (as claimed): once the reindex step of a run is through, a marker
\* that was there at the start has its flag in the arguments and is gone,
\* for either marker; and what the run before consumed is not passed again.
C5_ReindexOnce ==
    materialized =>
        /\ reindex => (HasArg("-reindex") /\ MarkerReindex \notin markers)
        /\ reindex_chainstate =>
              (HasArg("-reindex-chainstate") /\ MarkerChainstate \notin markers)
        /\ (prev.materialized /\ prev.reindex) => ~HasArg("-reindex")
        /\ (prev.materialized /\ prev.reindex_chainstate)
              => ~HasArg("-reindex-chainstate")

\* C5 (amended): the same, the chainstate-only marker being consumed only
\* in a run that starts without the full-reindex marker.
C5_ReindexOnceAmended ==
    materialized =>
        /\ reindex => (HasArg("-reindex") /\ MarkerReindex \notin markers)
        /\ (reindex_chainstate /\ ~reindex) =>
              (HasArg("-reindex-chainstate") /\ MarkerChainstate \notin markers)
        /\ (prev.materialized /\ prev.reindex) => ~HasArg("-reindex")
        /\ (prev.materialized /\ prev.reindex_chainstate /\ ~prev.reindex)
              => ~HasArg("-reindex-chainstate")

\* The run before consumed the full-reindex marker, this one passes no
\* reindex flag.
C5_Witness ==
    /\ run = 2 /\ materialized
    /\ prev.materialized /\ prev.reindex
    /\ ~HasArg("-reindex")

EnvMissing == ~env.ip.some \/ ~env.peer.some \/ ~env.rpc.some

\* C6: with a required environment variable absent the main thread never
\* gets past reading the variables: it ends with an error (code 1) there or
\* earlier, and no daemon is spawned in the run.
C6_MissingEnvNeverSpawns ==
    EnvMissing =>
        /\ child.state = "none" /\ childArgs = <<>> /\ ~CHILD_PID.some
        /\ pc \in {"check_reindex", "check_reindex_chainstate", "set_handler",
                   "wait_config", "load_config", "read_peer", "read_rpc",
                   "build_args", "failed"}
        /\ pc = "failed" => (~alive /\ exitCode = 1 /\ exitVia = "error")

\* Only EMBASSY_IP is missing and the run failed after loading the
\* Settings Document.
C6_Witness ==
    /\ ~env.ip.some /\ env.peer.some /\ env.rpc.some
    /\ config.valid /\ handlerInstalled
    /\ pc = "failed" /\ child.state = "none"

\* C7: the published file, when there, holds the whole document of the one
\* cycle that published it, and it only ever changes by the rename of a
\* completely written temporary file.
C7_AtomicPublication ==
    /\ [](pub.exists => pub.content = Serialize(pubDoc))
    /\ [][pub' # pub =>
            /\ alive /\ spc = "rename"
            /\ tmp.exists /\ tmp.content = Serialize(stats)
            /\ pub' = tmp /\ pubDoc' = stats]_vars

\* A document is published and a later write has failed part-way.
C7_Witness ==
    /\ pub.exists /\ tmp.exists
    /\ spc = "sleep" /\ "ERROR IN SIDECAR" \in logged
    /\ Len(tmp.content) > 0 /\ Len(tmp.content) < Len(pub.content)

\* The queries and the return of a cycle leave the files alone.
QueriesKeepFiles ==
    [][(spc \in {"sleep", "net"}) => (pub' = pub /\ tmp' = tmp)]_vars

\* C8 (as claimed): a cycle in which a query exits with 28 returns there,
\* with the published document unchanged and nothing logged.
C8_BusyCycleSilent ==
    /\ [](\A i \in 1..Len(seen) :
            seen[i] = 28 => (spc = "sleep" /\ Len(seen) = i /\ logged = {}))
    /\ QueriesKeepFiles

\* C8 (amended): a cycle in which a query exits with 28 returns there with
\* the published document unchanged and nothing logged for that query; only
\* the error of a chain-status query that failed before it is in the log.
C8_BusyCycleSilentAmended ==
    /\ [](\A i \in 1..Len(seen) :
            seen[i] = 28 =>
                /\ spc = "sleep" /\ Len(seen) = i
                /\ logged = IF i = 2 /\ seen[1] # 0
                            THEN {"Error updating blockchain info"} ELSE {})
    /\ QueriesKeepFiles

\* With a document published, a cycle was given up on 28 by the network
\* query, after a chain query that succeeded.
C8_Witness ==
    /\ pub.exists /\ spc = "sleep" /\ seen = <<0, 28>> /\ logged = {}

\* C9 (as claimed): as long as the process lives the sidecar loop goes on.
C9_SidecarNeverStops ==
    (alive /\ spc # "off") => spc # "panicked"

\* The labels a cycle can emit for the deployment of a name.
DeploymentLabels(name) ==
    { to_title_case(name) \o suffix :
        suffix \in {" Status", " Start Time", " Timeout", " Signal Percentage"} }

\* The chain-status query of the cycle has succeeded and its entries are in.
ChainEntriesIn == spc = "net" /\ seen = <<0>>

\* The chain-status query of the cycle has succeeded (exit code 0 and a
\* response that decodes): the cycle has gone on to the network-status
\* query or has panicked on the response.
ChainAnswered == seen = <<0>> /\ spc \in {"net", "panicked"}

\* What C10 says of the entries of a cycle.
ActiveSuppression ==
        /\ \A i \in 1..Len(chain.softforks) :
            LET sf == chain.softforks[i]
                pretty == to_title_case(sf.name)
            IN sf.fork.type = "bip9" =>
                IF /\ sf.fork.bip9.status = "active"
                   /\ chain.blocks >= sf.fork.bip9.since + 12096
                THEN DeploymentLabels(sf.name) \cap Labels(stats) = {}
                ELSE /\ {pretty \o " Status", pretty \o " Start Time",
                         pretty \o " Timeout"} \subseteq Labels(stats)
                     /\ sf.fork.bip9.status = "active" =>
                           Entry(stats, pretty \o " Status").value = "Active"
        /\ "Disk Usage" \in Labels(stats)

\* C10 (as claimed): after a successful chain-status query, a Bip9
\* deployment in the Active state has no entry when blocks >= since + 12096
\* and has its Status ("Active"), Start Time and Timeout entries below
\* that; every other Bip9 deployment has its three entries and Disk Usage
\* is there, whatever was suppressed.
C10_ActiveSuppression == ChainAnswered => ActiveSuppression

\* C10 in the cycles that get past the softforks loop: the same, once the
\* entries of the chain-status query are in.
C10_ActiveSuppressionWhenIn == ChainEntriesIn => ActiveSuppression

\* An active deployment exactly at the end of its window is left out, the
\* started deployment after it and Disk Usage are shown.
C10_Witness ==
    /\ ChainEntriesIn
    /\ Len(chain.softforks) = 2
    /\ chain.softforks[1] = [name |-> "taproot",
                             fork |-> Bip9Deployment("active", 100000, 0, 0,
                                                    TaprootTimeout)]
    /\ chain.softforks[2].name = "testdummy"
    /\ chain.softforks[2].fork.type = "bip9"
    /\ chain.softforks[2].fork.bip9.status = "started"
    /\ chain.blocks = 112096
    /\ "Taproot Status" \notin Labels(stats)
    /\ "Testdummy Signal Percentage" \in Labels(stats)
    /\ "Disk Usage" \in Labels(stats)

\* C11 (as claimed): a query that exits 0 never ends the cycle, whatever
\* its response: after the chain-status query the network-status query is
\* made, after the network-status query the document is written.
C11_MalformedOmitsOnlySection ==
    [][/\ (SidecarChainQuery /\ seen' = <<0>>) => spc' = "net"
       /\ (SidecarNetQuery /\ seen'[Len(seen')] = 0) => spc' = "create"]_vars

\* The labels of the entries that come from the chain status of BaseChain.
ChainLabels ==
    {"Block Height", "Synced Block Height", "Sync Progress", "Disk Usage"}

\* The query exited with a code that is neither success nor "not ready".
FailedCode(c) == c \notin {0, BusyCode, CannotRun.code}

\* A failed chain-status query (main.rs:376-381): the credential entries
\* only, the error logged, the network-status query next.
FailedChainQueryStep ==
    (SidecarChainQuery /\ Len(seen') = 1 /\ FailedCode(seen'[1])) =>
        /\ spc' = "net"
        /\ stats' = CredEntries(config, Var("RPC_TOR_ADDRESS").val)
        /\ Labels(stats') \cap (ChainLabels \cup {"Connections"}) = {}
        /\ logged' = {"Error updating blockchain info"}

\* A failed network-status query (main.rs:401-406): the entries as they
\* are, the error logged, the publication next.
FailedNetQueryStep ==
    (SidecarNetQuery /\ FailedCode(seen'[Len(seen')])) =>
        /\ spc' = "create"
        /\ stats' = stats
        /\ "Error updating network info" \in logged'

\* The rename that publishes (main.rs:414-417): the document holds the
\* chain entries iff the cycle's chain-status query succeeded and
\* Connections iff its network-status query succeeded.
PublishingStep ==
    (SidecarRename /\ tmp' # tmp) =>
        /\ pubDoc' = stats /\ pub'.content = Serialize(stats)
        /\ IF seen[1] = 0
           THEN ChainLabels \subseteq Labels(stats)
           ELSE /\ FailedCode(seen[1])
                /\ ChainLabels \cap Labels(stats) = {}
        /\ IF seen[2] = 0
           THEN "Connections" \in Labels(stats)
           ELSE /\ FailedCode(seen[2])
                /\ "Connections" \notin Labels(stats)

\* The step that ends a cycle which had got past its chain-status query,
\* and the step that ends it by publishing the cycle's entries.
CycleEnds == spc \in {"net", "create", "write", "rename"} /\ spc' = "sleep"
CyclePublishes ==
    /\ SidecarRename /\ tmp' # tmp
    /\ pubDoc' = stats /\ pub'.content = Serialize(stats)

\* C12 (as claimed): a chain-status query that fails with a code other than
\* 28 leaves the credential entries only, logs its error and goes on to the
\* network-status query; a network-status query that fails so leaves the
\* entries as they are; the published document holds the entries of the
\* queries that succeeded; and a cycle whose chain-status query failed so
\* ends by publishing its document.  Cycles that end in a logged error are
\* left aside, which is the reading most favourable to the claim.
C12_FailedQueryOmitsItsEntries ==
    /\ [][FailedChainQueryStep]_vars
    /\ [][FailedNetQueryStep]_vars
    /\ [][PublishingStep]_vars
    /\ [][(CycleEnds /\ FailedCode(seen'[1])
                     /\ "ERROR IN SIDECAR" \notin logged') =>
            CyclePublishes]_vars

\* C12 (amended): as above, except that the cycle publishes only when its
\* network-status query does not exit with 28 and no step of the cycle
\* ends in an error.  After a failed chain-status query a network-status
\* query that neither exits with 28 nor ends in an error goes on to the
\* publication, and the cycle ends in one of three ways: it publishes its
\* entries; its network-status query exits with 28 and it ends silently
\* with the published document as it was (main.rs:399-400); or an error
\* is logged and the published document is as it was.
C12_FailedQueryOmitsItsEntriesAmended ==
    /\ [][FailedChainQueryStep]_vars
    /\ [][FailedNetQueryStep]_vars
    /\ [][PublishingStep]_vars
    /\ [][(SidecarNetQuery /\ FailedCode(seen[1])
                           /\ seen'[2] # BusyCode
                           /\ "ERROR IN SIDECAR" \notin logged') =>
            spc' = "create"]_vars
    /\ [][(CycleEnds /\ FailedCode(seen'[1])) =>
            \/ CyclePublishes
            \/ /\ SidecarNetQuery
               /\ seen' = <<seen[1], BusyCode>>
               /\ logged' = logged
               /\ pub' = pub /\ pubDoc' = pubDoc
            \/ /\ "ERROR IN SIDECAR" \in logged'
               /\ pub' = pub /\ pubDoc' = pubDoc]_vars

\* A cycle whose chain-status query failed has published a document with
\* the credentials and Connections and without the chain entries.
C12_Witness ==
    /\ spc = "sleep" /\ seen = <<1, 0>> /\ pub.exists
    /\ pub.content = Serialize(pubDoc)
    /\ "Error updating blockchain info" \in logged
    /\ "ERROR IN SIDECAR" \notin logged
    /\ Labels(pubDoc) =
         {"Tor Quick Connect", "LAN Quick Connect", "RPC Username",
          "RPC Password", "Connections"}

\* The percentage shown for each verification progress of Progresses,
\* which is in units of 10^-4.
ShownProgress(v) ==
    CASE v = 0     -> "0.00%"
      [] v = 1234  -> "12.34%"
      [] v = 9980  -> "99.80%"
      [] v = 9999  -> "99.99%"
      [] v = 10000 -> "100.00%"

\* C13: after a successful chain-status query Sync Progress is "100%"
\* exactly when blocks >= headers, whatever the verification progress;
\* below the header count it is the verification progress as a percentage
\* with two decimals.
C13_SyncProgress ==
    ChainEntriesIn =>
        /\ "Sync Progress" \in Labels(stats)
        /\ LET shown == Entry(stats, "Sync Progress").value IN
             /\ shown = "100%" <=> chain.blocks >= chain.headers
             /\ chain.blocks < chain.headers
                  => shown = ShownProgress(chain.verificationprogress)

\* Equal counts with a verification progress short of 1 show "100%".
C13_Witness ==
    /\ ChainEntriesIn
    /\ chain.blocks = chain.headers
    /\ chain.verificationprogress = 9980
    /\ Entry(stats, "Sync Progress").value = "100%"

\* C14 (as claimed): a supervisor that has spawned the daemon ends only by
\* the exit-code mapping, that is after the daemon has exited.
C14_NoOrphanedDaemon ==
    (~alive /\ child.state # "none") =>
        (exitVia = "child" /\ child.state = "reaped")

\* The marker a reindex flag stands for.
FlagOf(m) == IF m = MarkerReindex THEN "-reindex" ELSE "-reindex-chainstate"

\* C15 (as claimed): a run that has deleted a marker does not end without
\* the daemon having been spawned with the flag of that marker.
C15_ReindexRequestNotLost ==
    \A m \in deleted :
        ~alive => /\ child.state # "none"
                  /\ \E i \in 1..Len(childArgs) : childArgs[i] = FlagOf(m)

\* The main thread is past the reindex step (main.rs:457-471).
PastReindex ==
    pc \in {"render", "render_copy", "spawn", "lock_pid", "store_pid", "pruned", "proxy",
            "spawn_sidecar", "wait", "exit_code", "exited"}

\* C16: the argument list never has both reindex flags; -reindex is there
\* only for a run that found the full-reindex marker, -reindex-chainstate
\* only for one that found the chainstate-only marker and not the other;
\* and past the reindex step the flag that applies is there.
C16_ReindexModesExclusive ==
    /\ ~(HasArg("-reindex") /\ HasArg("-reindex-chainstate"))
    /\ HasArg("-reindex") => reindex
    /\ HasArg("-reindex-chainstate") => (~reindex /\ reindex_chainstate)
    /\ PastReindex =>
        /\ reindex => HasArg("-reindex")
        /\ (~reindex /\ reindex_chainstate) => HasArg("-reindex-chainstate")
    /\ child.state # "none" => childArgs = btc_args

\* Both markers were found and the daemon runs with -reindex alone.
C16_Witness ==
    /\ reindex /\ reindex_chainstate
    /\ child.state = "running"
    /\ \E i \in 1..Len(childArgs) : childArgs[i] = "-reindex"
    /\ \A i \in 1..Len(childArgs) : childArgs[i] # "-reindex-chainstate"

\* The marker the reindex step of this run consumes, if any.
Consumes(m) ==
    \/ m = MarkerReindex /\ reindex
    \/ m = MarkerChainstate /\ ~reindex /\ reindex_chainstate

\* C17: in the reindex step of a run that consumes a marker, a marker that
\* is already missing lets startup go on with the flag in the arguments; a
\* step that goes on leaves no marker and has the flag; a step that fails
\* ends the run with an error before anything is materialized; and no
\* daemon exists in a run whose materialization did not complete.
C17_MarkerDeletionErrors ==
    /\ [][\A m \in Markers :
            (alive /\ pc = "reindex" /\ pc' # "reindex" /\ Consumes(m)) =>
              /\ m \notin markers => pc' = "render"
              /\ pc' \in {"render", "failed"}
              /\ pc' = "render" =>
                    /\ alive' /\ materialized' /\ m \notin markers'
                    /\ btc_args' = Append(btc_args, FlagOf(m))
              /\ pc' = "failed" =>
                    /\ ~alive' /\ exitCode' = 1 /\ exitVia' = "error"
                    /\ ~materialized' /\ markers' = markers
                    /\ child.state = "none"]_vars
    /\ [](~materialized => child.state = "none")

\* The full-reindex marker found at the start was gone when the step came
\* to delete it; the daemon runs with -reindex.
C17_Witness ==
    /\ reindex /\ materialized /\ MarkerReindex \notin deleted
    /\ child.state = "running"
    /\ \E i \in 1..Len(childArgs) : childArgs[i] = "-reindex"

\* C18: the Handle is absent as long as no daemon has been spawned; within
\* one process it changes only once, from absent to the pid of the spawned
\* daemon, written by the main thread holding the mutex; and the handler
\* reads it holding the mutex.
C18_HandleInvariant ==
    /\ [](child.state = "none" => ~CHILD_PID.some)
    /\ [](CHILD_PID.some => CHILD_PID.val = child.pid)
    /\ [][CHILD_PID' # CHILD_PID =>
            \/ run' # run
            \/ /\ ~CHILD_PID.some /\ CHILD_PID' = Some(child.pid)
               /\ child.state # "none" /\ child' = child
               /\ pc = "store_pid" /\ mutex = "main"]_vars
    /\ [](pc = "store_pid" => mutex = "main")
    /\ [](hpc = "locked" => mutex = "handler")

\* The handler holds the mutex over a Handle that was written after the
\* spawn, while the main thread waits for the daemon.
C18_Witness ==
    /\ CHILD_PID = Some(DaemonPid) /\ child.pid = DaemonPid
    /\ hpc = "locked" /\ mutex = "handler"
    /\ pc = "wait" /\ child.state = "running"

\* C19 (as claimed): every signal the handler relays goes to the daemon
\* while it still exists (running, or exited and not yet waited for), and
\* the handler does not crash.
C19_NeverSignalsReapedPid ==
    /\ \A i \in 1..Len(sent) : sent[i].target \in {"running", "zombie"}
    /\ hpc # "panicked"

\* The label of each deployment state, as the claim lists them.
StateLabel(status) ==
    CASE status = "defined"   -> "Defined"
      [] status = "started"   -> "Started"
      [] status = "locked_in" -> "Locked In"
      [] status = "active"    -> "Active"
      [] status = "failed"    -> "Active"

\* C20: after a successful chain-status query the Status entry of every
\* Bip9 deployment that is shown has the label of its state, whatever the
\* height, since, and the other deployments are; and a failed deployment is
\* shown at every height.
C20_StatusLabels ==
    ChainEntriesIn =>
        \A i \in 1..Len(chain.softforks) :
            LET sf == chain.softforks[i]
                label == to_title_case(sf.name) \o " Status"
            IN sf.fork.type = "bip9" =>
                /\ label \in Labels(stats) =>
                     Entry(stats, label).value = StateLabel(sf.fork.bip9.status)
                /\ sf.fork.bip9.status # "active" => label \in Labels(stats)

\* A failed deployment far past since + 12096 is shown as "Active".
C20_Witness ==
    /\ ChainEntriesIn
    /\ chain.blocks = 112200
    /\ chain.softforks =
         << [name |-> "taproot", fork |-> Bip9Deployment("failed", 0, 0, 0,
                                                       TaprootTimeout)] >>
    /\ Entry(stats, "Taproot Status").value = "Active"

\* The labels the claim gives one softforks item at a height.
ClaimedLabels(sf, blocks) ==
    LET pretty == to_title_case(sf.name) IN
    IF sf.fork.type = "buried" THEN {}
    ELSE IF /\ sf.fork.bip9.status = "active"
            /\ blocks >= sf.fork.bip9.since + 12096
    THEN {}
    ELSE {pretty \o " Status", pretty \o " Start Time", pretty \o " Timeout"}
         \cup (IF sf.fork.bip9.status = "started"
               THEN {pretty \o " Signal Percentage"} ELSE {})

\* The labels that do not come from the softforks: the credentials of
\* InitStats and the chain entries of a chain that is not pruned.
OtherLabels ==
    {"Tor Quick Connect", "LAN Quick Connect", "RPC Username", "RPC Password"}
    \cup ChainLabels

\* What C21 says of the entries of a cycle.
SoftForkEntriesAsListed ==
        /\ \A i \in 1..Len(chain.softforks) :
             DeploymentLabels(chain.softforks[i].name) \cap Labels(stats)
               = ClaimedLabels(chain.softforks[i], chain.blocks)
        /\ Labels(stats) =
             OtherLabels
             \cup UNION { ClaimedLabels(chain.softforks[i], chain.blocks) :
                            i \in 1..Len(chain.softforks) }
        /\ Len(stats) = Cardinality(Labels(stats))

\* C21 (as claimed): after a successful chain-status query, each softforks
\* item has among the entries exactly the labels of its kind: none for a
\* buried one (or a suppressed one), Status, Start Time and Timeout for a
\* Bip9 one, and Signal Percentage as well iff it is started; there is no
\* other entry, and each label is there once.
C21_SoftForkEntries == ChainAnswered => SoftForkEntriesAsListed

\* C21 in the cycles that get past the softforks loop.
C21_SoftForkEntriesWhenIn == ChainEntriesIn => SoftForkEntriesAsListed

\* A buried item and a started one: four entries for the second, none for
\* the first.
C21_Witness ==
    /\ ChainEntriesIn
    /\ Len(chain.softforks) = 2
    /\ chain.softforks[1] = [name |-> "csv", fork |-> Buried]
    /\ chain.softforks[2].name = "taproot"
    /\ chain.softforks[2].fork.type = "bip9"
    /\ chain.softforks[2].fork.bip9.status = "started"
    /\ Labels(stats) =
         OtherLabels \cup {"Taproot Status", "Taproot Start Time",
                           "Taproot Timeout", "Taproot Signal Percentage"}
    /\ Len(stats) = 12
====
